---- MODULE Spec2Model ----
(***************************************************************************)
(* The editing session of image_editor.py: ImageProcessor (the current     *)
(* image and the load-time reference), ImageHistory (the undo and redo     *)
(* stacks) and the ImageEditorApp handlers that drive them.                *)
(*                                                                         *)
(* An image is a numpy array.  It is modelled as a record                  *)
(*     [id, w, h, px]                                                      *)
(* where id is the identity of the array object (two records with the same *)
(* id are the same storage), w and h are shape[1] and shape[0], and px is  *)
(* the BGR sample triple of its pixels.  The files the model decodes are   *)
(* single-colour images: on those every cv2 filter the program calls has   *)
(* an exactly determined, single-colour result (a normalised blur kernel   *)
(* keeps the colour, Canny finds no edge, area resampling keeps the        *)
(* colour), so px is one triple for the whole array.                       *)
(***************************************************************************)
EXTENDS Integers, Sequences, FiniteSets, TLC

VARIABLES
    current_cv_image,     \* ImageProcessor.current_cv_image
    original_reference,   \* ImageProcessor.original_reference
    undo_stack,           \* ImageHistory.undo_stack
    redo_stack,           \* ImageHistory.redo_stack
    current_path,         \* ImageEditorApp.current_path
    written,              \* the cv2.imwrite call the last handler made, <<>> if none
    last,                 \* the last handler run and how it ended
    trial                 \* an array a transform is tried on outside a session

vars == <<current_cv_image, original_reference, undo_stack, redo_stack,
          current_path, written, last, trial>>

\* ------------------------------------------------------------------ bounds
\* apply is accepted while the undo stack holds fewer than MaxUndo entries
MaxUndo == 2
\* the inverse law is examined for N = 0 .. MaxN
MaxN == 3

\* grayscale is tried up to MaxPasses times in a row
MaxPasses == 2
\* rotation is tried on rasters of up to MaxSide by MaxSide pixels, with up
\* to MaxPresses presses of a rotate button
MaxSide == 3
MaxPresses == 4

\* ------------------------------------------------------------------ values
\* Python's None, for an image attribute
None == [id |-> -1, w |-> 0, h |-> 0, px |-> <<>>]
\* Python's None, for current_path
NoPath == "None"
\* what a cancelled file dialog returns
Cancelled == ""

\* the paths the file dialogs hand back
OpenPaths == {"a.png"}
SavePaths == {"out.png"}

\* what cv2.imread can find in a file: a decoded image, or nothing
Red == <<0, 0, 255>>
Decodable == { [w |-> 200, h |-> 100, px |-> Red],
               [w |-> 4,   h |-> 4,   px |-> Red] }
Undecodable == [w |-> 0, h |-> 0, px |-> <<>>]
FileContents == Decodable \cup {Undecodable}

\* the values the sliders and the resize dialog deliver
BlurValues == {0, 15}
\* <<brightness, contrast in tenths>>
Adjustments == { <<50, 10>> }
\* simpledialog.askinteger: an integer, or 0 standing for both 0 and a
\* cancelled dialog (None), which line 365 treats alike
Percents == {-50, 0, 1, 75, 150}

ROTATE_90_CLOCKWISE == 0
ROTATE_180 == 1
ROTATE_90_COUNTERCLOCKWISE == 2

\* ------------------------------------------------------------------ arrays
\* the content of an array, without its identity
Content(img) == [w |-> img.w, h |-> img.h, px |-> img.px]

\* the identities of the arrays in a sequence
StackIds(s) == { s[i].id : i \in 1..Len(s) }

\* the identity a newly allocated array gets: one that no live array has
Fresh(live) == CHOOSE i \in 0..Cardinality(live) : i \notin live

\* a new array with content c
NewArray(c, live) == [id |-> Fresh(live), w |-> c.w, h |-> c.h, px |-> c.px]

\* numpy's ndarray.copy()
copy(img, live) == NewArray(Content(img), live)

\* The session: the four attributes that hold arrays.
Session(cur, ref, us, rs) ==
    [current_cv_image |-> cur, original_reference |-> ref,
     undo_stack |-> us, redo_stack |-> rs]

\* every array slot of a session, in a fixed order
Slots(s) == <<s.current_cv_image, s.original_reference>> \o s.undo_stack \o s.redo_stack

\* the identities of the arrays a session holds
Live(s) == { Slots(s)[k].id : k \in 1..Len(Slots(s)) } \ {None.id}

\* Object identities matter only up to renaming: when a handler ends, each
\* array is renamed after a slot that holds it, so two slots have the same
\* identity exactly when they hold the same array.
Renumber(img, all) ==
    IF img = None THEN None
    ELSE [img EXCEPT !.id = CHOOSE k \in 1..Len(all) : all[k].id = img.id]

Renumbered(s) ==
    LET all == Slots(s)
    IN  [current_cv_image   |-> Renumber(s.current_cv_image, all),
         original_reference |-> Renumber(s.original_reference, all),
         undo_stack |-> [k \in 1..Len(s.undo_stack) |-> Renumber(s.undo_stack[k], all)],
         redo_stack |-> [k \in 1..Len(s.redo_stack) |-> Renumber(s.redo_stack[k], all)]]

\* the session as the variables hold it
Now == Session(current_cv_image, original_reference, undo_stack, redo_stack)

\* ------------------------------------------------------------------ cv2
\* a luminance whose weights do not add up to one
Luminance_weights_off(px) == (3735 * px[1] + 19235 * px[2] + 9898 * px[3] + 16384) \div 32768

\* cv2.cvtColor(.., COLOR_BGR2GRAY) of one BGR pixel: the fixed-point
\* luminance 0.114 B + 0.587 G + 0.299 R, rounded
Luminance(px) == (3735 * px[1] + 19235 * px[2] + 9798 * px[3] + 16384) \div 32768

\* cv2.cvtColor(.., COLOR_GRAY2BGR) of one sample
GrayToBGR(y) == <<y, y, y>>

\* cvRound: round to nearest, ties to even, of the non-negative n/10
RoundTenths(n) == LET q == n \div 10
                      r == n % 10
                  IN  IF r < 5 THEN q
                      ELSE IF r > 5 THEN q + 1
                      ELSE IF q % 2 = 0 THEN q ELSE q + 1

Abs(x) == IF x < 0 THEN -x ELSE x

\* saturate_cast<uchar>
Saturate(x) == IF x < 0 THEN 0 ELSE IF x > 255 THEN 255 ELSE x

\* cv2.convertScaleAbs of one sample: saturate(|alpha * x + beta|), alpha
\* given in tenths
ConvertScaleAbs(x, alpha10, beta) == Saturate(RoundTenths(Abs(alpha10 * x + 10 * beta)))

\* Python's int() of the quotient n / d, d > 0: truncation towards zero
PyInt(n, d) == IF n >= 0 THEN n \div d ELSE -((-n) \div d)

\* the cv2.error a transform raises instead of returning an array
Raised == [w |-> -1, h |-> -1, px |-> <<>>]

\* ------------------------------------------------------------------ ImageProcessor
\* Each method gives the content of the array it returns.
grayscale(cur) == [w |-> cur.w, h |-> cur.h, px |-> GrayToBGR(Luminance(cur.px))]

\* k = max(1, 2 * value + 1); a Gaussian kernel sums to one
blur(cur, value) == [w |-> cur.w, h |-> cur.h, px |-> cur.px]

\* Canny on a single-colour image: no gradient, no edge
edges(cur) == [w |-> cur.w, h |-> cur.h, px |-> GrayToBGR(0)]

brightness_contrast(cur, brightness, contrast10) ==
    [w |-> cur.w, h |-> cur.h,
     px |-> << ConvertScaleAbs(cur.px[1], contrast10, brightness),
               ConvertScaleAbs(cur.px[2], contrast10, brightness),
               ConvertScaleAbs(cur.px[3], contrast10, brightness) >>]

rotate(cur, angle_code) ==
    IF angle_code = ROTATE_180
    THEN [w |-> cur.w, h |-> cur.h, px |-> cur.px]
    ELSE [w |-> cur.h, h |-> cur.w, px |-> cur.px]

flip(cur, axis) == [w |-> cur.w, h |-> cur.h, px |-> cur.px]

\* the size a resize asks cv2.resize for, from the reference's shape
resize_new_dim(ref, scale_percent) ==
    [w |-> PyInt(ref.w * scale_percent, 100), h |-> PyInt(ref.h * scale_percent, 100)]

\* resize that hands back an array of whatever size was asked for
resize_any_size(ref, scale_percent) ==
    LET new_dim == resize_new_dim(ref, scale_percent)
    IN  [w |-> new_dim.w, h |-> new_dim.h, px |-> ref.px]

\* cv2.resize rejects an empty target size
resize(ref, scale_percent) ==
    LET new_dim == resize_new_dim(ref, scale_percent)
    IN  IF new_dim.w <= 0 \/ new_dim.h <= 0
        THEN Raised
        ELSE [w |-> new_dim.w, h |-> new_dim.h, px |-> ref.px]

\* the operations the sidebar buttons hand to process_with_loading
ButtonOperations ==
    { <<"grayscale", 0, 0>>, <<"edges", 0, 0>> }
    \cup { <<"blur", v, 0>> : v \in BlurValues }
    \cup { <<"brightness_contrast", a[1], a[2]>> : a \in Adjustments }
    \cup { <<"rotate", c, 0>> : c \in {ROTATE_90_CLOCKWISE, ROTATE_180, ROTATE_90_COUNTERCLOCKWISE} }
    \cup { <<"flip", axis, 0>> : axis \in {0, 1} }

\* RunOperation with the resize taken from the current image
RunOperation_resizes_current(opn, cur, ref) ==
    CASE opn[1] = "grayscale"           -> grayscale(cur)
      [] opn[1] = "edges"               -> edges(cur)
      [] opn[1] = "blur"                -> blur(cur, opn[2])
      [] opn[1] = "brightness_contrast" -> brightness_contrast(cur, opn[2], opn[3])
      [] opn[1] = "rotate"              -> rotate(cur, opn[2])
      [] opn[1] = "flip"                -> flip(cur, opn[2])
      [] opn[1] = "resize"              -> resize(cur, opn[2])

\* operation(): the content of the array the operation returns, or Raised
RunOperation(opn, cur, ref) ==
    CASE opn[1] = "grayscale"           -> grayscale(cur)
      [] opn[1] = "edges"               -> edges(cur)
      [] opn[1] = "blur"                -> blur(cur, opn[2])
      [] opn[1] = "brightness_contrast" -> brightness_contrast(cur, opn[2], opn[3])
      [] opn[1] = "rotate"              -> rotate(cur, opn[2])
      [] opn[1] = "flip"                -> flip(cur, opn[2])
      [] opn[1] = "resize"              -> resize(ref, opn[2])

\* load that forgets the reference as well when the file does not decode
load_drops_reference(file, cur, ref, live) ==
    IF file = Undecodable
    THEN [current_cv_image |-> None, original_reference |-> None, raised |-> TRUE]
    ELSE LET img == NewArray(file, live)
         IN  [current_cv_image |-> img,
              original_reference |-> copy(img, live \cup {img.id}),
              raised |-> FALSE]

\* load that keeps the decoded array itself as the reference
load_shares_array(file, cur, ref, live) ==
    IF file = Undecodable
    THEN [current_cv_image |-> None, original_reference |-> ref, raised |-> TRUE]
    ELSE LET img == NewArray(file, live)
         IN  [current_cv_image |-> img, original_reference |-> img, raised |-> FALSE]

\* ImageProcessor.load: what it leaves in current_cv_image and
\* original_reference, and whether it raised ValueError
load(file, cur, ref, live) ==
    IF file = Undecodable
    THEN [current_cv_image |-> None, original_reference |-> ref, raised |-> TRUE]
    ELSE LET img == NewArray(file, live)
         IN  [current_cv_image |-> img,
              original_reference |-> copy(img, live \cup {img.id}),
              raised |-> FALSE]

\* ------------------------------------------------------------------ ImageHistory
reset == [undo_stack |-> <<>>, redo_stack |-> <<>>]

\* save_state that leaves the redo stack alone
save_state_keeps_redo(img, us, rs, live) ==
    IF img # None
    THEN [undo_stack |-> Append(us, copy(img, live)), redo_stack |-> rs]
    ELSE [undo_stack |-> us, redo_stack |-> rs]

save_state(img, us, rs, live) ==
    IF img # None
    THEN [undo_stack |-> Append(us, copy(img, live)), redo_stack |-> <<>>]
    ELSE [undo_stack |-> us, redo_stack |-> rs]

\* undo that puts the state it pops, not the current image, on the redo stack
undo_pushes_popped(current_img, us, rs, live) ==
    IF us # <<>>
    THEN [ret |-> us[Len(us)],
          undo_stack |-> SubSeq(us, 1, Len(us) - 1),
          redo_stack |-> Append(rs, copy(us[Len(us)], live))]
    ELSE [ret |-> current_img, undo_stack |-> us, redo_stack |-> rs]

\* undo that returns nothing when there is nothing to undo
undo_none_when_empty(current_img, us, rs, live) ==
    IF us # <<>>
    THEN [ret |-> us[Len(us)],
          undo_stack |-> SubSeq(us, 1, Len(us) - 1),
          redo_stack |-> Append(rs, copy(current_img, live))]
    ELSE [ret |-> None, undo_stack |-> us, redo_stack |-> rs]

undo(current_img, us, rs, live) ==
    IF us # <<>>
    THEN [ret |-> us[Len(us)],
          undo_stack |-> SubSeq(us, 1, Len(us) - 1),
          redo_stack |-> Append(rs, copy(current_img, live))]
    ELSE [ret |-> current_img, undo_stack |-> us, redo_stack |-> rs]

\* redo that does not put the current image on the undo stack
redo_drops_current(current_img, us, rs, live) ==
    IF rs # <<>>
    THEN [ret |-> rs[Len(rs)],
          undo_stack |-> us,
          redo_stack |-> SubSeq(rs, 1, Len(rs) - 1)]
    ELSE [ret |-> current_img, undo_stack |-> us, redo_stack |-> rs]

redo(current_img, us, rs, live) ==
    IF rs # <<>>
    THEN [ret |-> rs[Len(rs)],
          undo_stack |-> Append(us, copy(current_img, live)),
          redo_stack |-> SubSeq(rs, 1, Len(rs) - 1)]
    ELSE [ret |-> current_img, undo_stack |-> us, redo_stack |-> rs]

\* ------------------------------------------------------------------ ImageEditorApp
\* Each handler is first given as an operator from the session it finds to
\* the session it leaves and the way it ended: "ok" it ran to its end,
\* "return" it returned early without a message, "showerror" it put up an
\* error box, "raised" an exception left the handler.
Outcome(s, result) == [session |-> s, result |-> result]

\* process_with_loading that saves the state after replacing the current
\* image
process_with_loading_on_saves_result(s, opn) ==
    IF s.current_cv_image = None
    THEN Outcome(s, "showerror")
    ELSE LET new_content == RunOperation(opn, s.current_cv_image, s.original_reference)
         IN  IF new_content = Raised
             THEN Outcome(s, "raised")
             ELSE LET new_img == NewArray(new_content, Live(s))
                      h == save_state(new_img, s.undo_stack, s.redo_stack,
                                      Live(s) \cup {new_img.id})
                  IN  Outcome(Session(new_img, s.original_reference,
                                      h.undo_stack, h.redo_stack), "ok")

\* process_with_loading that saves the state before it runs the operation
process_with_loading_on_saves_first(s, opn) ==
    IF s.current_cv_image = None
    THEN Outcome(s, "showerror")
    ELSE LET h == save_state(s.current_cv_image, s.undo_stack, s.redo_stack, Live(s))
             new_content == RunOperation(opn, s.current_cv_image, s.original_reference)
         IN  IF new_content = Raised
             THEN Outcome(Session(s.current_cv_image, s.original_reference,
                                  h.undo_stack, h.redo_stack), "raised")
             ELSE Outcome(Session(NewArray(new_content, Live(s) \cup StackIds(h.undo_stack)),
                                  s.original_reference, h.undo_stack, h.redo_stack), "ok")

\* process_with_loading(operation)
process_with_loading_on(s, opn) ==
    IF s.current_cv_image = None
    THEN Outcome(s, "showerror")
    ELSE LET new_content == RunOperation(opn, s.current_cv_image, s.original_reference)
         IN  IF new_content = Raised
             THEN Outcome(s, "raised")
             ELSE LET new_img == NewArray(new_content, Live(s))
                      h == save_state(s.current_cv_image, s.undo_stack, s.redo_stack,
                                      Live(s) \cup {new_img.id})
                  IN  Outcome(Session(new_img, s.original_reference,
                                      h.undo_stack, h.redo_stack), "ok")

\* open_image that does not reset the history
open_image_on_keeps_history(s, file) ==
    LET r == load(file, s.current_cv_image, s.original_reference, Live(s))
    IN  Outcome(Session(r.current_cv_image, r.original_reference,
                        s.undo_stack, s.redo_stack),
                IF r.raised THEN "showerror" ELSE "ok")

\* open_image once the dialog has returned a path; file: what cv2.imread
\* finds there
open_image_on(s, file) ==
    LET r == load(file, s.current_cv_image, s.original_reference, Live(s))
    IN  IF r.raised
        THEN Outcome(Session(r.current_cv_image, r.original_reference,
                             s.undo_stack, s.redo_stack), "showerror")
        ELSE Outcome(Session(r.current_cv_image, r.original_reference,
                             reset.undo_stack, reset.redo_stack), "ok")

\* ImageEditorApp.undo
undo_on(s) ==
    IF s.current_cv_image = None
    THEN Outcome(s, "return")
    ELSE LET r == undo(s.current_cv_image, s.undo_stack, s.redo_stack, Live(s))
         IN  Outcome(Session(r.ret, s.original_reference, r.undo_stack, r.redo_stack), "ok")

\* ImageEditorApp.redo
redo_on(s) ==
    IF s.current_cv_image = None
    THEN Outcome(s, "return")
    ELSE LET r == redo(s.current_cv_image, s.undo_stack, s.redo_stack, Live(s))
         IN  Outcome(Session(r.ret, s.original_reference, r.undo_stack, r.redo_stack), "ok")

\* what `last` records of a handler: its name, how it ended, the percentage
\* a resize was given, and how many history entries its clear() calls
\* threw away
Ended(op, result, arg, cleared) ==
    [op |-> op, result |-> result, arg |-> arg, cleared |-> cleared]

\* the entries of stack `before` that are gone from `after`
Lost(before, after) == IF Len(after) < Len(before) THEN Len(before) - Len(after) ELSE 0

\* no array is on trial
NoTrial == [kind |-> "none"]

\* the application as its constructor leaves it
Constructed ==
    /\ current_cv_image = None
    /\ original_reference = None
    /\ undo_stack = <<>>
    /\ redo_stack = <<>>
    /\ current_path = NoPath
    /\ written = <<>>
    /\ last = Ended("init", "ok", 0, 0)

Init ==
    /\ Constructed
    /\ trial = NoTrial

\* the variables take the session s
Becomes(s) ==
    LET n == Renumbered(s)
    IN  /\ current_cv_image' = n.current_cv_image
        /\ original_reference' = n.original_reference
        /\ undo_stack' = n.undo_stack
        /\ redo_stack' = n.redo_stack

\* a handler that ends without touching the session
Untouched(op, result, arg) ==
    /\ last' = Ended(op, result, arg, 0)
    /\ written' = <<>>
    /\ UNCHANGED <<current_cv_image, original_reference, undo_stack,
                   redo_stack, current_path>>

\* process_with_loading(operation): op names the handler that called it
process_with_loading(opn, op, arg) ==
    LET o == process_with_loading_on(Now, opn)
    IN  /\ Becomes(o.session)
        /\ last' = Ended(op, o.result, arg, Lost(redo_stack, o.session.redo_stack))
        /\ written' = <<>>
        /\ UNCHANGED current_path

\* a sidebar button
apply(opn) ==
    /\ Len(undo_stack) < MaxUndo
    /\ process_with_loading(opn, "apply", 0)

\* open_image that does not remember the path it opened
open_image_forgets_path(path, file) ==
    IF path = Cancelled
    THEN Untouched("open", "return", 0)
    ELSE LET o == open_image_on(Now, file)
         IN  /\ Becomes(o.session)
             /\ UNCHANGED current_path
             /\ last' = Ended("open", o.result, 0,
                              IF o.result = "ok"
                              THEN Lost(undo_stack, o.session.undo_stack)
                                   + Lost(redo_stack, o.session.redo_stack)
                              ELSE 0)
             /\ written' = <<>>

\* path: what askopenfilename returns; file: what cv2.imread finds there
open_image(path, file) ==
    IF path = Cancelled
    THEN Untouched("open", "return", 0)
    ELSE LET o == open_image_on(Now, file)
         IN  /\ Becomes(o.session)
             /\ current_path' = IF o.result = "ok" THEN path ELSE current_path
             /\ last' = Ended("open", o.result, 0,
                              IF o.result = "ok"
                              THEN Lost(undo_stack, o.session.undo_stack)
                                   + Lost(redo_stack, o.session.redo_stack)
                              ELSE 0)
             /\ written' = <<>>

\* save_as that does not look whether an image is loaded
save_as_from_unguarded(path, op) ==
    IF path # Cancelled
    THEN /\ written' = <<path, Content(current_cv_image)>>
         /\ current_path' = path
         /\ last' = Ended(op, "ok", 0, 0)
         /\ UNCHANGED <<current_cv_image, original_reference, undo_stack, redo_stack>>
    ELSE Untouched(op, "return", 0)

\* save_as; path: what asksaveasfilename returns; op names the handler
\* that called it
save_as_from(path, op) ==
    IF current_cv_image # None /\ path # Cancelled
    THEN /\ written' = <<path, Content(current_cv_image)>>
         /\ current_path' = path
         /\ last' = Ended(op, "ok", 0, 0)
         /\ UNCHANGED <<current_cv_image, original_reference, undo_stack, redo_stack>>
    ELSE Untouched(op, "return", 0)

save_as(path) == save_as_from(path, "save_as")

\* path: what the dialog of the save_as fallback would return
save(path) ==
    IF current_cv_image = None
    THEN Untouched("save", "showerror", 0)
    ELSE IF current_path = NoPath
         THEN save_as_from(path, "save")
         ELSE /\ written' = <<current_path, Content(current_cv_image)>>
              /\ last' = Ended("save", "ok", 0, 0)
              /\ UNCHANGED <<current_cv_image, original_reference, undo_stack,
                             redo_stack, current_path>>

\* percent: what askinteger returns (0 also stands for a cancelled dialog)
resize_popup(percent) ==
    IF current_cv_image = None
    THEN Untouched("resize", "showerror", percent)
    ELSE IF percent # 0
         THEN /\ Len(undo_stack) < MaxUndo
              /\ process_with_loading(<<"resize", percent, 0>>, "resize", percent)
         ELSE Untouched("resize", "return", percent)

app_undo ==
    LET o == undo_on(Now)
    IN  /\ Becomes(o.session)
        /\ last' = Ended("undo", o.result, 0, 0)
        /\ written' = <<>>
        /\ UNCHANGED current_path

app_redo ==
    LET o == redo_on(Now)
    IN  /\ Becomes(o.session)
        /\ last' = Ended("redo", o.result, 0, 0)
        /\ written' = <<>>
        /\ UNCHANGED current_path

OpenStep == \E path \in OpenPaths \cup {Cancelled}, file \in FileContents : open_image(path, file)
ApplyStep == \E opn \in ButtonOperations : apply(opn)
ResizeStep == \E percent \in Percents : resize_popup(percent)
SaveStep == \E path \in SavePaths \cup {Cancelled} : save(path)
SaveAsStep == \E path \in SavePaths \cup {Cancelled} : save_as(path)

Next ==
    \/ OpenStep /\ UNCHANGED trial
    \/ ApplyStep /\ UNCHANGED trial
    \/ ResizeStep /\ UNCHANGED trial
    \/ app_undo /\ UNCHANGED trial
    \/ app_redo /\ UNCHANGED trial
    \/ SaveStep /\ UNCHANGED trial
    \/ SaveAsStep /\ UNCHANGED trial

Spec == Init /\ [][Next]_vars

\* ------------------------------------------------------------------ transforms on trial
\* The transforms are also run on their own, on an array that belongs to
\* no session; the session stays as the constructor left it.
SessionVars == <<current_cv_image, original_reference, undo_stack, redo_stack,
                 current_path, written, last>>

\* a transform that has not run yet has no result
NoResult == [w |-> 0, h |-> 0, px |-> <<>>]

\* the values an 8-bit sample takes
Samples == 0..255

\* positions of the brightness slider (-100..100) and of the contrast slider
\* (1.0..3.0, in tenths; the positions that are exact binary fractions, on
\* which the float product of convertScaleAbs is exact)
Brightnesses == {-100, -1, 0, 50, 100}
Contrasts10 == {10, 15, 20, 25, 30}

\* brightness_contrast on a one-pixel image
InitAdjust ==
    /\ Constructed
    /\ trial \in { [kind |-> "adjust",
                    image |-> [w |-> 1, h |-> 1, px |-> <<x, 255 - x, (x + 128) % 256>>],
                    brightness |-> b, contrast10 |-> c,
                    result |-> NoResult]
                   : x \in Samples, b \in Brightnesses, c \in Contrasts10 }

Adjust ==
    /\ trial.kind = "adjust"
    /\ trial.result = NoResult
    /\ trial' = [trial EXCEPT !.result =
                    brightness_contrast(trial.image, trial.brightness, trial.contrast10)]
    /\ UNCHANGED SessionVars

SpecAdjust == InitAdjust /\ [][Adjust]_vars

\* the pixels grayscale is tried on: every grey, and a lattice of colours
GrayPixels ==
    { <<g, g, g>> : g \in Samples }
    \cup { <<b, g, r>> : b \in {0, 51, 102, 153, 204, 255},
                         g \in {0, 51, 102, 153, 204, 255},
                         r \in {0, 51, 102, 153, 204, 255} }

\* grayscale, pressed up to MaxPasses times on a one-pixel image
InitGray ==
    /\ Constructed
    /\ trial \in { [kind |-> "gray",
                    start |-> [w |-> 1, h |-> 1, px |-> p],
                    image |-> [w |-> 1, h |-> 1, px |-> p],
                    passes |-> 0] : p \in GrayPixels }

Gray ==
    /\ trial.kind = "gray"
    /\ trial.passes < MaxPasses
    /\ trial' = [trial EXCEPT !.image = grayscale(trial.image),
                              !.passes = trial.passes + 1]
    /\ UNCHANGED SessionVars

SpecGray == InitGray /\ [][Gray]_vars

\* A raster with every pixel in its place: px is the sequence of its h
\* rows, each a sequence of w BGR pixels.
\* cv2.rotate(src, code): the raster turned by a quarter or a half turn
cv2_rotate(src, code) ==
    CASE code = ROTATE_90_CLOCKWISE ->
            [w |-> src.h, h |-> src.w,
             px |-> [i \in 1..src.w |-> [j \in 1..src.h |-> src.px[src.h - j + 1][i]]]]
      [] code = ROTATE_180 ->
            [w |-> src.w, h |-> src.h,
             px |-> [i \in 1..src.h |-> [j \in 1..src.w |->
                        src.px[src.h - i + 1][src.w - j + 1]]]]
      [] code = ROTATE_90_COUNTERCLOCKWISE ->
            [w |-> src.h, h |-> src.w,
             px |-> [i \in 1..src.w |-> [j \in 1..src.h |-> src.px[j][src.w - i + 1]]]]

\* the "Rotate 270" button wired to the clockwise quarter turn
RotateButton_270_clockwise(degrees) ==
    CASE degrees = 90  -> ROTATE_90_CLOCKWISE
      [] degrees = 180 -> ROTATE_180
      [] degrees = 270 -> ROTATE_90_CLOCKWISE

\* the angle code each of the three rotate buttons passes to rotate()
RotateButton(degrees) ==
    CASE degrees = 90  -> ROTATE_90_CLOCKWISE
      [] degrees = 180 -> ROTATE_180
      [] degrees = 270 -> ROTATE_90_COUNTERCLOCKWISE

RotateButtons == {90, 180, 270}

\* the rasters rotation is tried on: of every size up to MaxSide by
\* MaxSide, one whose pixels all differ (each carries its row and column)
\* and one in two colours
Rasters ==
    { [w |-> w, h |-> h, px |-> [r \in 1..h |-> [c \in 1..w |-> <<r, c, 0>>]]]
        : w \in 1..MaxSide, h \in 1..MaxSide }
    \cup
    { [w |-> w, h |-> h,
       px |-> [r \in 1..h |-> [c \in 1..w |-> IF r = 1 \/ c = w THEN Red ELSE <<0, 0, 0>>]]]
        : w \in 1..MaxSide, h \in 1..MaxSide }

\* the rotate buttons, pressed up to MaxPresses times on a raster
InitRotate ==
    /\ Constructed
    /\ trial \in { [kind |-> "rotate", start |-> g, image |-> g, presses |-> <<>>]
                   : g \in Rasters }

Rotate(degrees) ==
    /\ trial.kind = "rotate"
    /\ Len(trial.presses) < MaxPresses
    /\ trial' = [trial EXCEPT !.image = cv2_rotate(trial.image, RotateButton(degrees)),
                              !.presses = Append(trial.presses, degrees)]
    /\ UNCHANGED SessionVars

RotateStep == \E degrees \in RotateButtons : Rotate(degrees)

SpecRotate == InitRotate /\ [][RotateStep]_vars

\* ------------------------------------------------------------------ properties
Loaded == current_cv_image # None

\* the last handler was a transform (a sidebar button or a resize) that
\* took effect
Applied == last.op \in {"apply", "resize"} /\ last.result = "ok"

\* the last handler was an open that decoded its file
LoadedNow == last.op = "open" /\ last.result = "ok"

\* the last handler was an open whose file did not decode
LoadFailed == last.op = "open" /\ last.result = "showerror"

\* the session after n presses of Undo, and after n presses of Redo
RECURSIVE UndoN(_, _)
UndoN(s, n) == IF n = 0 THEN s ELSE UndoN(undo_on(s).session, n - 1)

RECURSIVE RedoN(_, _)
RedoN(s, n) == IF n = 0 THEN s ELSE RedoN(redo_on(s).session, n - 1)

\* N undos then N redos give back the content of the current image
RoundTrip(N) ==
    Content(RedoN(UndoN(Now, N), N).current_cv_image) = Content(current_cv_image)

\* C1, as stated: in every loaded state, for every N (also N beyond the
\* depth of the undo stack), N undos followed by N redos leave the current
\* image bit-identical.
C1_InverseLawEveryN == Loaded => \A N \in 0..MaxN : RoundTrip(N)

\* C1, amended: in every loaded state, N undos followed by N redos leave the
\* current image bit-identical for every N up to the depth of the undo
\* stack, and for every N at all when the redo stack is empty.
C1_InverseLaw ==
    Loaded => \A N \in 0..MaxN :
                  (N <= Len(undo_stack) \/ redo_stack = <<>>) => RoundTrip(N)

\* two undos are possible here, they change the image, and the session got
\* here by undoing and redoing
C1_Witness ==
    /\ Loaded
    /\ last.op = "redo"
    /\ Len(undo_stack) = 2
    /\ Content(UndoN(Now, 2).current_cv_image) # Content(current_cv_image)
    /\ Content(UndoN(Now, 1).current_cv_image) # Content(current_cv_image)

\* C2: every transform that takes effect leaves the redo stack empty, so a
\* redo pressed next changes neither the current image nor either stack.
C2_RedoInvalidation ==
    Applied => /\ redo_stack = <<>>
               /\ redo_on(Now) = Outcome(Now, "ok")

\* an undo had filled the redo stack, and the transform just applied threw
\* its entries away
C2_Witness == Applied /\ last.cleared > 0 /\ undo_stack # <<>>

\* C3, as stated: an open whose file does not decode leaves the current
\* image, the reference, both stacks and the path as they were.
C3_FailedLoadKeepsState ==
    [][LoadFailed' => UNCHANGED <<current_cv_image, original_reference,
                                  undo_stack, redo_stack, current_path>>]_vars

\* C4: right after a transform takes effect, the top of the undo stack is
\* the current image as it was before the transform, and an undo gives
\* exactly that image back.
C4_BeforeMutation ==
    [][Applied' =>
          /\ undo_stack' # <<>>
          /\ Content(undo_stack'[Len(undo_stack')]) = Content(current_cv_image)
          /\ Content(undo_on(Now').session.current_cv_image) = Content(current_cv_image)]_vars

\* a transform took effect and changed the image: the saved state differs
\* from the result
C4_Witness ==
    /\ Applied
    /\ undo_stack # <<>>
    /\ Content(undo_stack[Len(undo_stack)]) # Content(current_cv_image)

\* C5: a transform whose operation raises leaves the current image, the
\* reference and both stacks as they were.
C5_FailedTransform ==
    [][(last'.result = "raised") =>
          UNCHANGED <<current_cv_image, original_reference, undo_stack, redo_stack>>]_vars

\* a resize raised in a session that holds history
C5_Witness ==
    /\ last.op = "resize" /\ last.result = "raised"
    /\ Loaded
    /\ undo_stack # <<>>
    /\ redo_stack # <<>>

\* C6: an open that decodes its file leaves the decoded image as the
\* current image and as the reference (equal content, two arrays) and both
\* stacks empty; and a history that held entries becomes empty only by
\* such an open.
C6_LoadResets ==
    [][/\ LoadedNow' =>
            /\ current_cv_image' # None
            /\ Content(current_cv_image') \in Decodable
            /\ Content(original_reference') = Content(current_cv_image')
            /\ original_reference'.id # current_cv_image'.id
            /\ undo_stack' = <<>>
            /\ redo_stack' = <<>>
       /\ ( /\ undo_stack \o redo_stack # <<>>
            /\ undo_stack' \o redo_stack' = <<>> ) => LoadedNow']_vars

\* an open has just thrown away a history of two entries
C6_Witness == LoadedNow /\ last.cleared = 2 /\ Loaded

\* C7: the reference changes only by an open that decodes its file.
C7_OriginalFrame ==
    [][original_reference' # original_reference => LoadedNow']_vars

\* a resize has replaced the current image and the reference still holds
\* the decoded image, of another size
C7_Witness ==
    /\ last.op = "resize" /\ last.result = "ok"
    /\ Content(original_reference) \in Decodable
    /\ current_cv_image.w # original_reference.w

\* C8: a resize to p percent that takes effect leaves a current image of
\* floor(W p / 100) by floor(H p / 100), W by H being the size of the
\* reference, whatever the current image was.
C8_ResizeIndependence ==
    (last.op = "resize" /\ last.result = "ok") =>
        /\ current_cv_image.w = (original_reference.w * last.arg) \div 100
        /\ current_cv_image.h = (original_reference.h * last.arg) \div 100

\* 200x100 resized to 150 percent and then to 75 percent is 150x75
C8_Witness ==
    /\ last.op = "resize" /\ last.result = "ok" /\ last.arg = 75
    /\ original_reference.w = 200 /\ original_reference.h = 100
    /\ undo_stack # <<>>
    /\ undo_stack[Len(undo_stack)].w = 300 /\ undo_stack[Len(undo_stack)].h = 150
    /\ current_cv_image.w = 150 /\ current_cv_image.h = 75

\* C9: with an image loaded, an undo on an empty undo stack and a redo on
\* an empty redo stack run to their end without an error and leave the
\* current image and both stacks as they were.
C9_EmptyStackNoOps ==
    [][/\ (Loaded /\ undo_stack = <<>> /\ last'.op = "undo") =>
            /\ last'.result = "ok"
            /\ UNCHANGED <<current_cv_image, undo_stack, redo_stack>>
       /\ (Loaded /\ redo_stack = <<>> /\ last'.op = "redo") =>
            /\ last'.result = "ok"
            /\ UNCHANGED <<current_cv_image, undo_stack, redo_stack>>]_vars

\* an undo has run on a loaded image with both stacks empty
C9_Witness ==
    /\ Loaded
    /\ last.op = "undo" /\ last.result = "ok"
    /\ undo_stack = <<>>
    /\ redo_stack = <<>>

\* C10: the current image, the reference and the entries of both stacks
\* are pairwise distinct arrays.
C10_CopyIsolation ==
    LET all == Slots(Now)
    IN  \A i, j \in 1..Len(all) :
            (i # j /\ all[i] # None /\ all[j] # None) => all[i].id # all[j].id

\* a session that holds four arrays at once
C10_Witness == Loaded /\ undo_stack # <<>> /\ redo_stack # <<>>

\* C12: with no image loaded, a transform button, a resize, a save, a
\* save-as, an undo and a redo end in an error box or an early return and
\* leave the current image, the reference, both stacks and the path as
\* they were.
C12_EmptyRejects ==
    [][(~Loaded /\ last'.op # "open") =>
          /\ last'.result \in {"showerror", "return"}
          /\ written' = <<>>
          /\ UNCHANGED <<current_cv_image, original_reference, undo_stack,
                         redo_stack, current_path>>]_vars

\* a transform button was pressed with no image loaded and was turned away
C12_Witness ==
    /\ ~Loaded
    /\ last.op = "apply"
    /\ last.result = "showerror"
    /\ current_path = NoPath

\* C13: whenever an image is loaded a last-used path is set, and a save
\* writes the current image to that path.
C13_SaveToLastPath ==
    [][/\ Loaded' => current_path' # NoPath
       /\ (Loaded /\ last'.op = "save") =>
            /\ last'.result = "ok"
            /\ written' = <<current_path, Content(current_cv_image)>>
            /\ current_path' = current_path]_vars

\* a save wrote an edited image to the path of the last save-as
C13_Witness ==
    /\ last.op = "save" /\ last.result = "ok"
    /\ written = <<"out.png", Content(current_cv_image)>>
    /\ undo_stack # <<>>

\* C14: the current image and every entry of both stacks have a width and
\* a height above zero.
C14_PositiveSize ==
    LET all == <<current_cv_image>> \o undo_stack \o redo_stack
    IN  \A k \in 1..Len(all) : all[k] # None => (all[k].w > 0 /\ all[k].h > 0)

\* a resize whose percentage rounds a side of the reference down to zero
\* was asked for in a session that holds history
C14_Witness ==
    /\ Loaded
    /\ last.op = "resize" /\ last.arg = 1
    /\ (original_reference.w * last.arg) \div 100 = 0
    /\ undo_stack # <<>>

\* C17, as stated: while no image is loaded both stacks are empty.
C17_EmptyHasNoHistory == ~Loaded => (undo_stack = <<>> /\ redo_stack = <<>>)

\* C18: an undo and a redo keep the number of entries of the two stacks
\* together; one that takes effect moves one entry from its stack to the
\* other; a transform that takes effect adds exactly one entry to the undo
\* stack.
C18_Conservation ==
    [][/\ last'.op \in {"undo", "redo"} =>
            Len(undo_stack') + Len(redo_stack') = Len(undo_stack) + Len(redo_stack)
       /\ (last'.op = "undo" /\ Loaded /\ undo_stack # <<>>) =>
            /\ Len(undo_stack') = Len(undo_stack) - 1
            /\ Len(redo_stack') = Len(redo_stack) + 1
       /\ (last'.op = "redo" /\ Loaded /\ redo_stack # <<>>) =>
            /\ Len(redo_stack') = Len(redo_stack) - 1
            /\ Len(undo_stack') = Len(undo_stack) + 1
       /\ Applied' => Len(undo_stack') = Len(undo_stack) + 1]_vars

\* a redo has taken effect with entries left on both stacks
C18_Witness ==
    /\ last.op = "redo" /\ last.result = "ok"
    /\ undo_stack # <<>>
    /\ redo_stack # <<>>

\* C19, as stated: a resize that takes effect was given a percentage from
\* 50 to 200.
C19_PercentInRange ==
    (last.op = "resize" /\ last.result = "ok") => last.arg \in 50..200

\* clamp(contrast * in + brightness, 0, 255) of one sample, contrast given
\* in tenths, rounded to the nearest sample
ClampedAffine(x, contrast10, brightness) ==
    LET t == contrast10 * x + 10 * brightness
    IN  IF t < 0 THEN 0
        ELSE IF RoundTenths(t) > 255 THEN 255 ELSE RoundTenths(t)

\* C11, as stated: brightness/contrast gives, in every channel,
\* clamp(contrast * in + brightness, 0, 255); a negative intermediate value
\* gives 0.
C11_ClampedAffine ==
    (trial.kind = "adjust" /\ trial.result # NoResult) =>
        \A ch \in 1..3 :
            trial.result.px[ch] =
                ClampedAffine(trial.image.px[ch], trial.contrast10, trial.brightness)

\* C15: on every raster, four presses of "Rotate 90" give back the raster,
\* size and pixels; "Rotate 90" and "Rotate 270" swap width and height,
\* "Rotate 180" keeps them; "Rotate 270" gives what three presses of
\* "Rotate 90" give.
C15_RotationRoundTrip ==
    trial.kind = "rotate" =>
        LET Press(g, degrees) == cv2_rotate(g, RotateButton(degrees))
            g == trial.image
        IN  /\ Press(Press(Press(Press(g, 90), 90), 90), 90) = g
            /\ trial.presses = <<90, 90, 90, 90>> => trial.image = trial.start
            /\ Press(g, 90).w = g.h /\ Press(g, 90).h = g.w
            /\ Press(g, 270).w = g.h /\ Press(g, 270).h = g.w
            /\ Press(g, 180).w = g.w /\ Press(g, 180).h = g.h
            /\ Press(g, 270) = Press(Press(Press(g, 90), 90), 90)
            /\ \A degrees \in RotateButtons :
                  LET d == Press(g, degrees)
                  IN  /\ DOMAIN d.px = 1..d.h
                      /\ \A r \in 1..d.h : DOMAIN d.px[r] = 1..d.w

\* four presses of "Rotate 90" on a raster that is not square and whose
\* pixels all differ, which one press changes
C15_Witness ==
    /\ trial.kind = "rotate"
    /\ trial.presses = <<90, 90, 90, 90>>
    /\ trial.start.w = 3 /\ trial.start.h = 2
    /\ trial.start.px[2][3] = <<2, 3, 0>>
    /\ trial.image = trial.start
    /\ cv2_rotate(trial.start, RotateButton(90)) # trial.start

\* C16: once grayscale has been applied, applying it again gives the same
\* buffer; the luminance of a pixel whose three channels are all g is g.
C16_GrayscaleIdempotent ==
    trial.kind = "gray" =>
        /\ trial.passes >= 1 => grayscale(trial.image) = trial.image
        /\ trial.passes >= 1 => trial.image = grayscale(trial.start)
        /\ (trial.image.px[1] = trial.image.px[2] /\ trial.image.px[2] = trial.image.px[3])
              => Luminance(trial.image.px) = trial.image.px[1]

\* grayscale applied twice to a coloured pixel, which the first pass changed
C16_Witness ==
    /\ trial.kind = "gray"
    /\ trial.passes = 2
    /\ trial.start.px = <<0, 51, 255>>
    /\ trial.image.px # trial.start.px
    /\ trial.image = grayscale(trial.start)

====
